---------------------------- MODULE Spec2Model ----------------------------
(***************************************************************************)
(* A model of the chess engine of src/src/game.rs: the Game struct, its    *)
(* FEN codec (set_state_from_fen / get_fen), the per-piece move            *)
(* generators, the legality filter clean_moves, the game state detector    *)
(* and the turn executor take_turn.                                        *)
(*                                                                         *)
(* Conventions.  A square is a pair <<row, column>> of the code's          *)
(* (usize, usize), both counted from 0; row 0 is the rank written first in *)
(* a FEN placement.  A Vec is a sequence, so board[x][y] of the code is    *)
(* board[x + 1][y + 1] here (operator At).  A String is a sequence of      *)
(* one-character strings.  The Vec<(usize, usize)> move lists are used by  *)
(* the code only through contains(), len() == 0 and append(), so they are  *)
(* modelled as sets of squares.                                            *)
(*                                                                         *)
(* Three specifications share the variables: Spec and PlaySpec run the     *)
(* public functions of Game from Game::new() on two sets of texts, GenSpec *)
(* calls the move generators of Piece on loaded positions.                 *)
(***************************************************************************)
EXTENDS Integers, Sequences, FiniteSets, TLC

VARIABLES
    board,               \* Game.board: Vec<Vec<Piece>>
    current_turn,        \* Game.current_turn: Colour
    castlings,           \* Game.castlings: (K, Q, k, q)
    en_passant_square,   \* Game.en_passant_square: (usize, usize)
    halfmove_clock,      \* Game.halfmove_clock
    turn,                \* Game.turn (the fullmove number)
    selected_promotion,  \* Game.selected_promotion: Piece
    game_state,          \* Game.game_state: GameState
    last,                \* history: the last call made on the Game and its outcome
    ncalls,              \* history: number of take_turn calls made so far
    nloads               \* history: number of set_state_from_fen calls made so far

vars == <<board, current_turn, castlings, en_passant_square, halfmove_clock,
          turn, selected_promotion, game_state, last, ncalls, nloads>>

(***************************************************************************)
(* Bounds of the model.                                                    *)
(***************************************************************************)
MaxCalls == 3
MaxLoads == 1

(***************************************************************************)
(* Colour, Piece, GameState.                                               *)
(***************************************************************************)
White == "White"
Black == "Black"
Colour == {White, Black}

Piece(kind, colour) == [kind |-> kind, colour |-> colour]
Empty == [kind |-> "Empty", colour |-> "None"]
King(c) == Piece("King", c)
Queen(c) == Piece("Queen", c)
Rook(c) == Piece("Rook", c)
Bishop(c) == Piece("Bishop", c)
Knight(c) == Piece("Knight", c)
Pawn(c) == Piece("Pawn", c)

InProgress == "InProgress"
Check == "Check"
Checkmate == "Checkmate"

\* Piece::get_colour: Some(colour), or None for Empty.
get_colour(p) == p.colour

\* The sentinel the code uses for "no en passant target".
NoSquare == <<8, 8>>

(***************************************************************************)
(* Text: characters, split, decimal conversion.                            *)
(***************************************************************************)
DigitChars == <<"0", "1", "2", "3", "4", "5", "6", "7", "8", "9">>
FileChars == <<"a", "b", "c", "d", "e", "f", "g", "h">>

\* The position of character c in the sequence s, or 0 when absent.
IndexOf(s, c) ==
    IF \E i \in DOMAIN s : s[i] = c
    THEN CHOOSE i \in DOMAIN s : s[i] = c /\ \A j \in DOMAIN s : s[j] = c => i <= j
    ELSE 0

\* char::to_digit(10): the digit's value, or -1 for None.
to_digit(c) == IndexOf(DigitChars, c) - 1

\* char::from_digit(n, 10).unwrap() for n in 0..9.
from_digit(n) == DigitChars[n + 1]

\* str::contains(char)
contains(s, c) == \E i \in DOMAIN s : s[i] = c

\* str::split(sep) collected into a Vec: the pieces between separators, empty
\* pieces included; the empty string splits into one empty piece.
RECURSIVE SplitFrom(_, _, _, _)
SplitFrom(s, sep, i, cur) ==
    IF i > Len(s) THEN <<cur>>
    ELSE IF s[i] = sep THEN <<cur>> \o SplitFrom(s, sep, i + 1, <<>>)
    ELSE SplitFrom(s, sep, i + 1, Append(cur, s[i]))

split(s, sep) == SplitFrom(s, sep, 1, <<>>)

\* usize::to_string
RECURSIVE to_string(_)
to_string(n) ==
    IF n < 10 THEN <<from_digit(n)>>
    ELSE Append(to_string(n \div 10), from_digit(n % 10))

\* str::parse::<usize>: the value, or -1 for Err (empty text, or a character
\* that is no decimal digit).  The inputs of this model carry no sign.
RECURSIVE ParseDigits(_, _, _)
ParseDigits(s, i, acc) ==
    IF i > Len(s) THEN acc
    ELSE IF to_digit(s[i]) < 0 THEN -1
    ELSE ParseDigits(s, i + 1, acc * 10 + to_digit(s[i]))

parse_usize(s) == IF Len(s) = 0 THEN -1 ELSE ParseDigits(s, 1, 0)

\* A String literal: the concatenation of words, one space between them.
RECURSIVE JoinWords(_)
JoinWords(ws) ==
    IF Len(ws) = 0 THEN <<>>
    ELSE IF Len(ws) = 1 THEN ws[1]
    ELSE ws[1] \o <<" ">> \o JoinWords(Tail(ws))


(***************************************************************************)
(* The Game struct and its constructors.                                   *)
(***************************************************************************)
\* The Game value the variables hold.
Game ==
    [board |-> board, current_turn |-> current_turn, castlings |-> castlings,
     en_passant_square |-> en_passant_square, halfmove_clock |-> halfmove_clock,
     turn |-> turn, selected_promotion |-> selected_promotion,
     game_state |-> game_state]

\* The outcome of a call that ran to its end, and of one that panicked: the
\* Game as it is at that point.
Done(g) == [game |-> g, panic |-> FALSE]
Panic(g) == [game |-> g, panic |-> TRUE]

\* board[x][y] for a square <<x, y>>; the callers index squares that exist.
At(b, sq) == b[sq[1] + 1][sq[2] + 1]

\* Both indices of board[x][y] are in range.
InBoard(b, sq) ==
    /\ sq[1] + 1 \in DOMAIN b
    /\ sq[2] + 1 \in DOMAIN b[sq[1] + 1]

\* The board with one cell assigned: board[x][y] = p.
Put(b, sq, p) == [b EXCEPT ![sq[1] + 1][sq[2] + 1] = p]

\* Every board[x][y] with x, y in 0..8 exists: the loops over the 64 squares
\* run without an index panic.
Covers64(b) ==
    /\ Len(b) >= 8
    /\ \A x \in 1..8 : Len(b[x]) >= 8

PieceLetters == <<"K", "Q", "R", "B", "N", "P">>
LowerLetters == <<"k", "q", "r", "b", "n", "p">>
PieceKinds == <<"King", "Queen", "Rook", "Bishop", "Knight", "Pawn">>

\* The match arms of set_state_from_fen for one placement character that is a
\* piece letter.
IsPieceChar(c) == IndexOf(PieceLetters, c) > 0 \/ IndexOf(LowerLetters, c) > 0

\* PieceOfChar with the two cases exchanged: an upper-case letter read as Black.
PieceOfChar_UpperIsBlack(c) ==
    IF IndexOf(PieceLetters, c) > 0
    THEN Piece(PieceKinds[IndexOf(PieceLetters, c)], Black)
    ELSE Piece(PieceKinds[IndexOf(LowerLetters, c)], White)

PieceOfChar(c) ==
    IF IndexOf(PieceLetters, c) > 0
    THEN Piece(PieceKinds[IndexOf(PieceLetters, c)], White)
    ELSE Piece(PieceKinds[IndexOf(LowerLetters, c)], Black)

\* vec![Piece::Empty; n]
Empties(n) == [i \in 1..n |-> Empty]

\* The closure over one rank of the placement field: a piece letter pushes its
\* piece, any other character pushes to_digit(10).unwrap() empty cells.
RECURSIVE DecodeRank(_, _)
DecodeRank(rank, i) ==
    IF i > Len(rank) THEN <<>>
    ELSE (IF IsPieceChar(rank[i]) THEN <<PieceOfChar(rank[i])>>
          ELSE Empties(to_digit(rank[i]))) \o DecodeRank(rank, i + 1)

\* The unwrap() of that closure panics: a character that is neither a piece
\* letter nor a decimal digit.
RankPanics(rank) ==
    \E i \in DOMAIN rank : ~IsPieceChar(rank[i]) /\ to_digit(rank[i]) < 0

\* The en passant field decoded (lines 97-118).  A rank digit above 8 makes
\* 8 - y underflow: a panic when the build checks overflow (oc), and otherwise
\* the wrapped value, written here as the negative number 8 - y.
EnPassantPanics(ep, oc) ==
    \/ Len(ep) = 0
    \/ /\ ep[1] # "-"
       /\ \/ IndexOf(FileChars, ep[1]) = 0
          \/ Len(ep) < 2
          \/ to_digit(ep[2]) < 0
          \/ (to_digit(ep[2]) > 8 /\ oc)

DecodeEnPassant(ep) ==
    IF ep[1] = "-" THEN NoSquare
    ELSE <<8 - to_digit(ep[2]), IndexOf(FileChars, ep[1]) - 1>>

\* Game::set_state_from_fen.  The fields are assigned one after the other, so
\* a panic leaves the Game with the fields assigned up to that point.
set_state_from_fen(g, fen, oc) ==
    LET fen_split == split(fen, " ") IN
    IF Len(fen_split) # 6 THEN Panic(g)
    ELSE
    LET ranks == split(fen_split[1], "/") IN
    IF \E i \in DOMAIN ranks : RankPanics(ranks[i]) THEN Panic(g)
    ELSE
    LET g1 == [g EXCEPT !.board = [i \in DOMAIN ranks |-> DecodeRank(ranks[i], 1)]] IN
    IF Len(fen_split[2]) = 0 \/ fen_split[2][1] \notin {"w", "b"} THEN Panic(g1)
    ELSE
    LET g2 == [g1 EXCEPT
                 !.current_turn = IF fen_split[2][1] = "w" THEN White ELSE Black,
                 !.castlings = <<contains(fen_split[3], "K"), contains(fen_split[3], "Q"),
                                 contains(fen_split[3], "k"), contains(fen_split[3], "q")>>] IN
    IF EnPassantPanics(fen_split[4], oc) THEN Panic(g2)
    ELSE
    LET g3 == [g2 EXCEPT !.en_passant_square = DecodeEnPassant(fen_split[4])] IN
    IF parse_usize(fen_split[5]) < 0 THEN Panic(g3)
    ELSE
    LET g4 == [g3 EXCEPT !.halfmove_clock = parse_usize(fen_split[5])] IN
    IF parse_usize(fen_split[6]) < 0 THEN Panic(g4)
    ELSE Done([g4 EXCEPT !.turn = parse_usize(fen_split[6])])

\* The text Game::new decodes.
StartFen ==
    JoinWords(<<
      <<"r","n","b","q","k","b","n","r","/","p","p","p","p","p","p","p","p","/",
        "8","/","8","/","8","/","8","/",
        "P","P","P","P","P","P","P","P","/","R","N","B","Q","K","B","N","R">>,
      <<"w">>, <<"K","Q","k","q">>, <<"-">>, <<"0">>, <<"1">> >>)

\* The struct literal of Game::new, before the start position is decoded.
NewStruct ==
    [board |-> <<<<Empty>>>>, current_turn |-> White,
     castlings |-> <<TRUE, TRUE, TRUE, TRUE>>, en_passant_square |-> <<0, 0>>,
     halfmove_clock |-> 0, turn |-> 0, selected_promotion |-> Queen(White),
     game_state |-> InProgress]

\* Game::new()
Game_new == set_state_from_fen(NewStruct, StartFen, TRUE).game

\* Game::new_empty()
new_empty ==
    [board |-> <<<<Empty>>>>, current_turn |-> White,
     castlings |-> <<TRUE, TRUE, TRUE, TRUE>>, en_passant_square |-> NoSquare,
     halfmove_clock |-> 0, turn |-> 1, selected_promotion |-> Queen(White),
     game_state |-> InProgress]

(***************************************************************************)
(* Game::get_fen.                                                          *)
(***************************************************************************)
\* The letter pushed for a piece: upper case for White, lower case for Black.
LetterOf(p) ==
    IF get_colour(p) = White THEN PieceLetters[IndexOf(PieceKinds, p.kind)]
    ELSE LowerLetters[IndexOf(PieceKinds, p.kind)]

\* The pending run of empty cells, flushed as a digit.
FlushEmpties(empties) == IF empties > 0 THEN <<from_digit(empties)>> ELSE <<>>

\* The inner loop of get_fen over the cells y..7 of one rank.
RECURSIVE EncodeRank(_, _, _)
EncodeRank(row, y, empties) ==
    IF y = 8 THEN FlushEmpties(empties)
    ELSE IF row[y + 1] = Empty THEN EncodeRank(row, y + 1, empties + 1)
    ELSE FlushEmpties(empties) \o <<LetterOf(row[y + 1])>> \o EncodeRank(row, y + 1, 0)

\* The outer loop of get_fen over the ranks x..7.
RECURSIVE EncodePlacement(_, _)
EncodePlacement(b, x) ==
    IF x = 8 THEN <<>>
    ELSE EncodeRank(b[x + 1], 0, 0) \o (IF x # 7 THEN <<"/">> ELSE <<>>)
         \o EncodePlacement(b, x + 1)

\* The castling letters of get_fen: one letter for each granted right.
EncodeCastlings(c) ==
    (IF c[1] THEN <<"K">> ELSE <<>>) \o (IF c[2] THEN <<"Q">> ELSE <<>>)
    \o (IF c[3] THEN <<"k">> ELSE <<>>) \o (IF c[4] THEN <<"q">> ELSE <<>>)

\* EncodeEnPassant writing the row index where the rank 8 - row belongs.
EncodeEnPassant_RowAsRank(sq) ==
    IF sq[2] \in 0..7 THEN <<FileChars[sq[2] + 1], from_digit(sq[1])>>
    ELSE <<"-">>

\* The en passant field of get_fen: file letter and rank digit when the column
\* is one of 0..7, and '-' otherwise.
EncodeEnPassant(sq) ==
    IF sq[2] \in 0..7 THEN <<FileChars[sq[2] + 1], from_digit(8 - sq[1])>>
    ELSE <<"-">>

\* Game::get_fen on a Game whose board has the 64 cells it reads.
get_fen(g) ==
    EncodePlacement(g.board, 0)
    \o (IF g.current_turn = White THEN <<" ", "w", " ">> ELSE <<" ", "b", " ">>)
    \o EncodeCastlings(g.castlings)
    \o <<" ">> \o EncodeEnPassant(g.en_passant_square)
    \o <<" ">> \o to_string(g.halfmove_clock)
    \o <<" ">> \o to_string(g.turn)

(***************************************************************************)
(* The per-piece move generators (impl Piece).                             *)
(***************************************************************************)
\* The 64 squares the loops "for x in 0..8 { for y in 0..8" visit.
Squares == (0..7) \X (0..7)

OnBoard(sq) == sq[1] \in 0..7 /\ sq[2] \in 0..7

\* convert_square: file letter and rank digit to (8 - rank, column).
convert_square(square) ==
    <<8 - to_digit(square[2]), IndexOf(FileChars, square[1]) - 1>>

\* One loop "for number in 1..8" of get_rook_moves / bishop_move!: the squares
\* pos + number * (dx, dy), stopping at the edge of the board, at a piece of
\* the own colour (excluded) or at a piece of the other colour (included).
\* Slide that also returns the square of a piece of the own colour.
RECURSIVE Slide_TakesOwn(_, _, _, _, _, _)
Slide_TakesOwn(self, pos, b, dx, dy, number) ==
    LET sq == <<pos[1] + dx * number, pos[2] + dy * number>> IN
    IF number >= 8 \/ ~OnBoard(sq) THEN {}
    ELSE IF At(b, sq) = Empty
         THEN {sq} \cup Slide_TakesOwn(self, pos, b, dx, dy, number + 1)
    ELSE {sq}

RECURSIVE Slide(_, _, _, _, _, _)
Slide(self, pos, b, dx, dy, number) ==
    LET sq == <<pos[1] + dx * number, pos[2] + dy * number>> IN
    IF number >= 8 \/ ~OnBoard(sq) THEN {}
    ELSE IF At(b, sq) = Empty
         THEN {sq} \cup Slide(self, pos, b, dx, dy, number + 1)
    ELSE IF get_colour(At(b, sq)) = get_colour(self) THEN {}
    ELSE {sq}

\* Piece::get_rook_moves
get_rook_moves(self, pos, b) ==
    Slide(self, pos, b, 0, 1, 1) \cup Slide(self, pos, b, 1, 0, 1)
    \cup Slide(self, pos, b, 0, -1, 1) \cup Slide(self, pos, b, -1, 0, 1)

\* Piece::get_bishop_moves
get_bishop_moves(self, pos, b) ==
    Slide(self, pos, b, 1, 1, 1) \cup Slide(self, pos, b, 1, -1, 1)
    \cup Slide(self, pos, b, -1, 1, 1) \cup Slide(self, pos, b, -1, -1, 1)

\* The eight invocations of knight_move!: (row offset, column offset).
KnightOffsets ==
    {<<-1, -2>>, <<-1, 2>>, <<1, -2>>, <<1, 2>>,
     <<-2, -1>>, <<-2, 1>>, <<2, -1>>, <<2, 1>>}

\* KnightGuard with the bound of a subtraction one too high.
KnightGuard_OffByOne(p, d) == IF d < 0 THEN p > 0 - d ELSE p < 7 - (d - 1)

\* The float comparison of knight_move! on one axis, for the offset d:
\* p > 3.5 - 3.5 + (|d| - 1) for a subtraction, p < 3.5 + 3.5 - (d - 1) for
\* an addition.
KnightGuard(p, d) == IF d < 0 THEN p > (0 - d) - 1 ELSE p < 7 - (d - 1)

\* Piece::get_knight_moves
get_knight_moves(self, pos, b) ==
    {sq \in {<<pos[1] + d[1], pos[2] + d[2]>> : d \in
                {e \in KnightOffsets : KnightGuard(pos[1], e[1]) /\ KnightGuard(pos[2], e[2])}} :
        \/ At(b, sq) = Empty
        \/ get_colour(At(b, sq)) # get_colour(self)}

\* Piece::get_threatened_squares.  The king's squares are its own square and
\* its neighbours, cut off at row 0 and column 0 only; the pawn's squares are
\* (row + 1, column - 1) and (row + 1, column + 1) for either colour.
get_threatened_squares(self, pos, b) ==
    CASE self.kind = "King" ->
           {<<pos[1] + x - 1, pos[2] + y - 1>> : <<x, y>> \in
               {xy \in (0..2) \X (0..2) : pos[1] + xy[1] # 0 /\ pos[2] + xy[2] # 0}}
      [] self.kind = "Pawn" ->
           (IF pos[2] # 0 THEN {<<pos[1] + 1, pos[2] - 1>>} ELSE {})
           \cup (IF pos[2] # 7 THEN {<<pos[1] + 1, pos[2] + 1>>} ELSE {})
      [] self.kind = "Queen" -> get_rook_moves(self, pos, b) \cup get_bishop_moves(self, pos, b)
      [] self.kind = "Rook" -> get_rook_moves(self, pos, b)
      [] self.kind = "Bishop" -> get_bishop_moves(self, pos, b)
      [] self.kind = "Knight" -> get_knight_moves(self, pos, b)
      [] OTHER -> {}

\* The set collected by the loops of get_game_state_no_recursion and of
\* get_king_moves: the squares threatened by the pieces whose colour is not c.
threatened_squares(b, c) ==
    UNION {get_threatened_squares(At(b, sq), sq, b) :
             sq \in {s \in Squares : At(b, s) # Empty /\ get_colour(At(b, s)) # c}}

\* The castling destinations of get_king_moves for one colour: kingside with
\* its right k_right and the squares f, g; queenside with q_right and d, c, b.
CastlingMoves(b, c, k_right, q_right, row) ==
    LET threat == threatened_squares(b, c) IN
    (IF /\ k_right
        /\ At(b, <<row, 5>>) = Empty /\ At(b, <<row, 6>>) = Empty
        /\ <<row, 5>> \notin threat /\ <<row, 6>> \notin threat
     THEN {<<row, 6>>} ELSE {})
    \cup
    (IF /\ q_right
        /\ At(b, <<row, 3>>) = Empty /\ At(b, <<row, 2>>) = Empty
        /\ At(b, <<row, 1>>) = Empty
        /\ <<row, 3>> \notin threat /\ <<row, 2>> \notin threat
        /\ <<row, 1>> \notin threat
     THEN {<<row, 2>>} ELSE {})

\* Piece::get_king_moves
get_king_moves(self, pos, b, cast) ==
    {sq \in {<<pos[1] + xy[1] - 1, pos[2] + xy[2] - 1>> : xy \in
                {d \in (0..2) \X (0..2) :
                    /\ pos[1] + d[1] # 0 /\ pos[1] + d[1] # 9
                    /\ pos[2] + d[2] # 0 /\ pos[2] + d[2] # 9}} :
        \/ At(b, sq) = Empty
        \/ get_colour(At(b, sq)) # get_colour(self)}
    \cup
    (IF get_colour(self) = White
     THEN CastlingMoves(b, White, cast[1], cast[2], 7)
     ELSE CastlingMoves(b, Black, cast[3], cast[4], 0))

\* The capture test of get_pawn_moves for one diagonal square.
PawnTakes(self, b, sq, ep) ==
    \/ (At(b, sq) # Empty /\ get_colour(At(b, sq)) # get_colour(self))
    \/ ep = sq

\* Piece::get_pawn_moves
get_pawn_moves(self, pos, b, ep) ==
    IF get_colour(self) = Black
    THEN (IF pos[1] < 7
          THEN (IF pos[2] < 7 /\ PawnTakes(self, b, <<pos[1] + 1, pos[2] + 1>>, ep)
                THEN {<<pos[1] + 1, pos[2] + 1>>} ELSE {})
               \cup
               (IF pos[2] > 0 /\ PawnTakes(self, b, <<pos[1] + 1, pos[2] - 1>>, ep)
                THEN {<<pos[1] + 1, pos[2] - 1>>} ELSE {})
               \cup
               (IF At(b, <<pos[1] + 1, pos[2]>>) = Empty
                THEN {<<pos[1] + 1, pos[2]>>} ELSE {})
          ELSE {})
         \cup
         (IF /\ pos[1] = 1 /\ At(b, <<pos[1] + 1, pos[2]>>) = Empty
             /\ At(b, <<pos[1] + 2, pos[2]>>) = Empty
          THEN {<<pos[1] + 2, pos[2]>>} ELSE {})
    ELSE (IF pos[1] > 1
          THEN (IF pos[2] < 7 /\ PawnTakes(self, b, <<pos[1] - 1, pos[2] + 1>>, ep)
                THEN {<<pos[1] - 1, pos[2] + 1>>} ELSE {})
               \cup
               (IF pos[2] > 0 /\ PawnTakes(self, b, <<pos[1] - 1, pos[2] - 1>>, ep)
                THEN {<<pos[1] - 1, pos[2] - 1>>} ELSE {})
               \cup
               (IF At(b, <<pos[1] - 1, pos[2]>>) = Empty
                THEN {<<pos[1] - 1, pos[2]>>} ELSE {})
          ELSE {})
         \cup
         (IF /\ pos[1] = 6 /\ At(b, <<pos[1] - 1, pos[2]>>) = Empty
             /\ At(b, <<pos[1] - 2, pos[2]>>) = Empty
          THEN {<<pos[1] - 2, pos[2]>>} ELSE {})

(***************************************************************************)
(* The game state detector and the legality filter.                        *)
(***************************************************************************)
\* Game::get_game_state_no_recursion: Check when a king of the side to move
\* stands on a square threatened by a piece of the other colour.
get_game_state_no_recursion(g) ==
    IF \E sq \in Squares :
          /\ At(g.board, sq) = King(g.current_turn)
          /\ sq \in threatened_squares(g.board, g.current_turn)
    THEN Check
    ELSE InProgress

RECURSIVE get_game_state(_, _)

\* clean_moves: each candidate is replayed on the board of a Game::new(),
\* whose side to move is White, and is dropped when that Game is in Check.
clean_moves(pos, b, moves) ==
    {m \in moves :
        LET theoretical_game ==
              [Game_new EXCEPT !.board = Put(Put(b, m, At(b, pos)), pos, Empty)]
        IN get_game_state(theoretical_game, FALSE) # Check}

\* The candidate moves get_valid_moves hands to clean_moves.
Candidates(self, pos, b, ep, cast) ==
    CASE self.kind = "Queen" -> get_rook_moves(self, pos, b) \cup get_bishop_moves(self, pos, b)
      [] self.kind = "Rook" -> get_rook_moves(self, pos, b)
      [] self.kind = "Bishop" -> get_bishop_moves(self, pos, b)
      [] self.kind = "Knight" -> get_knight_moves(self, pos, b)
      [] self.kind = "Pawn" -> get_pawn_moves(self, pos, b, ep)
      [] self.kind = "King" -> get_king_moves(self, pos, b, cast)
      [] OTHER -> {}

\* Piece::get_valid_moves
get_valid_moves(self, pos, b, ep, cast) ==
    IF self = Empty THEN {}
    ELSE clean_moves(pos, b, Candidates(self, pos, b, ep, cast))

\* Game::get_game_state: at the end of a turn (eot) a Check with no valid move
\* of any piece of the side to move is a Checkmate.
get_game_state(g, eot) ==
    LET state == get_game_state_no_recursion(g) IN
    IF state = Check /\ eot
    THEN LET moves ==
               UNION {get_valid_moves(At(g.board, sq), sq, g.board,
                                      g.en_passant_square, g.castlings) :
                        sq \in {s \in Squares :
                                  /\ At(g.board, s) # Empty
                                  /\ get_colour(At(g.board, s)) = g.current_turn}}
         IN IF moves = {} THEN Checkmate ELSE state
    ELSE state

(***************************************************************************)
(* Game::take_turn.                                                        *)
(***************************************************************************)
\* The outcome of a take_turn call: the Game, whether the call panicked, and
\* the value returned ("None", or "Some" of the stored game_state).
Returned(g, ret) == [game |-> g, panic |-> FALSE, ret |-> ret]
Panicked(g) == [game |-> g, panic |-> TRUE, ret |-> "panic"]

\* The castling arm of the match on cur_piece for a king of colour c on the
\* back row `row`, with its kingside right k and queenside right q: the rook
\* is relocated when the destination is the g or the c square of that row and
\* the right is granted; both rights are then cleared.
KingSideEffects(g, c, to, row, k, q) ==
    LET b1 == IF to = <<row, 6>> /\ g.castlings[k]
              THEN Put(Put(g.board, <<row, 7>>, Empty), <<row, 5>>, Rook(c))
              ELSE g.board
        b2 == IF to = <<row, 2>> /\ g.castlings[q]
              THEN Put(Put(b1, <<row, 0>>, Empty), <<row, 3>>, Rook(c))
              ELSE b1
    IN [g EXCEPT !.board = b2,
                 !.castlings = [@ EXCEPT ![k] = FALSE, ![q] = FALSE]]

\* The pawn arm reaches "_ => panic!()": the destination is the en passant
\* square and that square is on neither row 5 nor row 2.
PawnArmPanics(g, cur_piece, to) ==
    /\ cur_piece.kind = "Pawn"
    /\ to = g.en_passant_square
    /\ g.en_passant_square[1] \notin {5, 2}

\* The pawn arm: the en passant capture, then the halfmove clock reset.
PawnSideEffects(g, to) ==
    LET ep == g.en_passant_square
        b1 == IF to = ep
              THEN (IF ep[1] = 5 THEN Put(g.board, <<ep[1] - 1, ep[2]>>, Empty)
                    ELSE Put(g.board, <<ep[1] + 1, ep[2]>>, Empty))
              ELSE g.board
    IN [g EXCEPT !.board = b1, !.halfmove_clock = 0]

\* The block "if valids.contains(&to) { match cur_piece { ... } }".
SideEffects(g, cur_piece, to) ==
    CASE cur_piece = King(Black) -> KingSideEffects(g, Black, to, 0, 3, 4)
      [] cur_piece = King(White) -> KingSideEffects(g, White, to, 7, 1, 2)
      [] cur_piece.kind = "Pawn" -> PawnSideEffects(g, to)
      [] OTHER -> g

\* "to.0 == from.0 - 2" is evaluated for a white pawn on row 0 or 1: the
\* subtraction underflows.
EnPassantUnderflows(g, from) ==
    At(g.board, from) = Pawn(White) /\ from[1] < 2

\* The en passant square recomputed.  An underflowed from.0 - 2 that wrapped
\* equals no row of the board.
NextEnPassant(g, from, to) ==
    IF At(g.board, from) = Pawn(Black) /\ to[1] = from[1] + 2
    THEN <<from[1] + 1, from[2]>>
    ELSE IF At(g.board, from) = Pawn(White) /\ from[1] >= 2 /\ to[1] = from[1] - 2
    THEN <<from[1] - 1, from[2]>>
    ELSE NoSquare

\* ClearCorner granting the right of the corner where it is to clear it.
ClearCorner_Grants(cast, sq) ==
    CASE sq = <<0, 0>> -> [cast EXCEPT ![4] = TRUE]
      [] sq = <<0, 7>> -> [cast EXCEPT ![3] = TRUE]
      [] sq = <<7, 0>> -> [cast EXCEPT ![2] = TRUE]
      [] sq = <<7, 7>> -> [cast EXCEPT ![1] = TRUE]
      [] OTHER -> cast

\* "match from" / "match to": the right tied to a corner square is cleared.
ClearCorner(cast, sq) ==
    CASE sq = <<0, 0>> -> [cast EXCEPT ![4] = FALSE]
      [] sq = <<0, 7>> -> [cast EXCEPT ![3] = FALSE]
      [] sq = <<7, 0>> -> [cast EXCEPT ![2] = FALSE]
      [] sq = <<7, 7>> -> [cast EXCEPT ![1] = FALSE]
      [] OTHER -> cast

\* The relocation and the two promotion tests.
Relocate(b, from, to, promotion) ==
    LET b1 == Put(Put(b, to, At(b, from)), from, Empty)
        b2 == IF At(b1, to) = Pawn(White) /\ to[1] = 0 THEN Put(b1, to, promotion) ELSE b1
    IN IF At(b2, to) = Pawn(Black) /\ to[1] = 7 THEN Put(b2, to, promotion) ELSE b2

\* Other that leaves the side as it is.
Other_Same(c) == c

\* The else branch of "if self.current_turn == Colour::Black".
Other(c) == IF c = Black THEN White ELSE Black

\* Recolour falling back to the queen.
Recolour_Queen(p, c) == Queen(c)

\* "match self.selected_promotion": the same kind in the colour c.
Recolour(p, c) == Piece(p.kind, c)

\* The statements of take_turn after the side effects: en passant square,
\* corner rights, capture clock reset, relocation, promotion, side to move,
\* move number, promotion colour and game state.
Commit(g, from, to) ==
    LET g1 == [g EXCEPT
                 !.en_passant_square = NextEnPassant(g, from, to),
                 !.castlings = ClearCorner(ClearCorner(@, from), to),
                 !.halfmove_clock = IF At(g.board, to) # Empty THEN 0 ELSE @,
                 !.board = Relocate(@, from, to, g.selected_promotion),
                 !.turn = IF g.current_turn = Black THEN @ + 1 ELSE @,
                 !.current_turn = Other(@),
                 !.selected_promotion = Recolour(@, Other(g.current_turn))]
    IN [g1 EXCEPT !.game_state = get_game_state(g1, TRUE)]

\* Game::take_turn on the squares `from` and `to`; oc tells whether the build
\* checks arithmetic overflow.
take_turn(g, from, to, oc) ==
    LET g1 == [g EXCEPT !.halfmove_clock = @ + 1]
        cur_piece == At(g.board, from)
    IN
    IF cur_piece = Empty \/ get_colour(cur_piece) # g.current_turn
    THEN Returned(g1, "None")
    ELSE
    LET valids == get_valid_moves(cur_piece, from, g.board, g.en_passant_square, g.castlings) IN
    IF to \in valids /\ PawnArmPanics(g1, cur_piece, to) THEN Panicked(g1)
    ELSE
    LET g2 == IF to \in valids THEN SideEffects(g1, cur_piece, to) ELSE g1 IN
    IF EnPassantUnderflows(g2, from) /\ oc THEN Panicked(g2)
    ELSE Returned(Commit(g2, from, to), "Some")

\* Game::select_promotion panics on a letter other than r, b, n, q.
to_lowercase(c) ==
    IF IndexOf(PieceLetters, c) > 0 THEN LowerLetters[IndexOf(PieceLetters, c)] ELSE c

PromotionKind(c) ==
    CASE to_lowercase(c) = "r" -> "Rook"
      [] to_lowercase(c) = "b" -> "Bishop"
      [] to_lowercase(c) = "n" -> "Knight"
      [] to_lowercase(c) = "q" -> "Queen"
      [] OTHER -> "panic"

\* Game::select_promotion
select_promotion(g, c) ==
    IF PromotionKind(c) = "panic" THEN Panic(g)
    ELSE Done([g EXCEPT !.selected_promotion = Piece(PromotionKind(c), g.current_turn)])

(***************************************************************************)
(* The inputs of the model.                                                *)
(***************************************************************************)
\* A king and a rook on their home squares.  "8/8/8/8/8/8/8/4K2R w KQkq - 0 0"
FenCastle ==
    JoinWords(<<<<"8", "/", "8", "/", "8", "/", "8", "/", "8", "/", "8", "/", "8", "/", "4", "K", "2", "R">>,
               <<"w">>,
               <<"K", "Q", "k", "q">>,
               <<"-">>,
               <<"0">>,
               <<"0">>>>)

\* Black to move; b8 to b2 mates the white king.  "1q6/8/8/8/8/2b5/8/K7 b - - 0 1"
FenMateWhite ==
    JoinWords(<<<<"1", "q", "6", "/", "8", "/", "8", "/", "8", "/", "8", "/", "2", "b", "5", "/", "8", "/", "K", "7">>,
               <<"b">>,
               <<"-">>,
               <<"-">>,
               <<"0">>,
               <<"1">>>>)

\* White to move; b1 to b7 mates the black king.  "k7/8/2B5/8/8/8/8/1Q5K w - - 0 1"
FenMateBlack ==
    JoinWords(<<<<"k", "7", "/", "8", "/", "2", "B", "5", "/", "8", "/", "8", "/", "8", "/", "8", "/", "1", "Q", "5", "K">>,
               <<"w">>,
               <<"-">>,
               <<"-">>,
               <<"0">>,
               <<"1">>>>)

\* Black to move; the black rook on e7 covers its king from the rook on e2.  "4k3/4r3/8/8/8/8/4R3/4K3 b - - 0 1"
FenPinBlack ==
    JoinWords(<<<<"4", "k", "3", "/", "4", "r", "3", "/", "8", "/", "8", "/", "8", "/", "8", "/", "4", "R", "3", "/", "4", "K", "3">>,
               <<"b">>,
               <<"-">>,
               <<"-">>,
               <<"0">>,
               <<"1">>>>)

\* Five fields: the castling field is missing.  "1B6/8/8/8/8/8/8/8 w - 0 0"
FenFiveFields ==
    JoinWords(<<<<"1", "B", "6", "/", "8", "/", "8", "/", "8", "/", "8", "/", "8", "/", "8", "/", "8">>,
               <<"w">>,
               <<"-">>,
               <<"0">>,
               <<"0">>>>)

\* A side to move that is neither w nor b.  "8/8/8/8/8/8/8/4K2k x - - 0 1"
FenBadSide ==
    JoinWords(<<<<"8", "/", "8", "/", "8", "/", "8", "/", "8", "/", "8", "/", "8", "/", "4", "K", "2", "k">>,
               <<"x">>,
               <<"-">>,
               <<"-">>,
               <<"0">>,
               <<"1">>>>)

\* A placement character that is neither a piece letter nor a digit.  "8/8/8/8/8/8/8/4K2X w - - 0 1"
FenBadPlacement ==
    JoinWords(<<<<"8", "/", "8", "/", "8", "/", "8", "/", "8", "/", "8", "/", "8", "/", "4", "K", "2", "X">>,
               <<"w">>,
               <<"-">>,
               <<"-">>,
               <<"0">>,
               <<"1">>>>)

\* An en passant file that is no file letter.  "8/8/8/8/8/8/8/4K2k b - z3 0 1"
FenBadEnPassant ==
    JoinWords(<<<<"8", "/", "8", "/", "8", "/", "8", "/", "8", "/", "8", "/", "8", "/", "4", "K", "2", "k">>,
               <<"b">>,
               <<"-">>,
               <<"z", "3">>,
               <<"0">>,
               <<"1">>>>)

\* A halfmove clock that is no number.  "8/8/8/8/8/8/8/4K2k b - - x 1"
FenBadClock ==
    JoinWords(<<<<"8", "/", "8", "/", "8", "/", "8", "/", "8", "/", "8", "/", "8", "/", "4", "K", "2", "k">>,
               <<"b">>,
               <<"-">>,
               <<"-">>,
               <<"x">>,
               <<"1">>>>)

\* A move number that is no number.  "8/8/8/8/8/8/8/4K2k b - - 7 x"
FenBadNumber ==
    JoinWords(<<<<"8", "/", "8", "/", "8", "/", "8", "/", "8", "/", "8", "/", "8", "/", "4", "K", "2", "k">>,
               <<"b">>,
               <<"-">>,
               <<"-">>,
               <<"7">>,
               <<"x">>>>)

FenInputs ==
    {FenCastle,
     FenMateWhite,
     FenMateBlack,
     FenPinBlack,
     FenFiveFields,
     FenBadSide,
     FenBadPlacement,
     FenBadEnPassant,
     FenBadClock,
     FenBadNumber}

\* The texts handed to take_turn: "<square> <square>".
MoveInputs ==
    {<<"a", "2", " ", "a", "5">>,
     <<"e", "2", " ", "e", "4">>,
     <<"e", "7", " ", "e", "5">>,
     <<"e", "1", " ", "g", "1">>,
     <<"a", "1", " ", "h", "8">>,
     <<"a", "8", " ", "h", "1">>,
     <<"b", "8", " ", "b", "2">>,
     <<"b", "1", " ", "b", "7">>,
     <<"e", "7", " ", "a", "7">>}

\* White to move; the black pawn b5 has just advanced two ranks.  "8/8/3p4/1pP5/8/8/8/8 w - b6 0 0"
FenEnPassant ==
    JoinWords(<<<<"8", "/", "8", "/", "3", "p", "4", "/", "1", "p", "P", "5", "/", "8", "/", "8", "/", "8", "/", "8">>,
               <<"w">>,
               <<"-">>,
               <<"b", "6">>,
               <<"0">>,
               <<"0">>>>)

\* Black to move; the white pawn d4 has just advanced two ranks.  "8/8/8/8/3Pp3/8/8/8 b - d3 0 1"
FenEnPassantWhite ==
    JoinWords(<<<<"8", "/", "8", "/", "8", "/", "8", "/", "3", "P", "p", "3", "/", "8", "/", "8", "/", "8">>,
               <<"b">>,
               <<"-">>,
               <<"d", "3">>,
               <<"0">>,
               <<"1">>>>)

\* Black to move with an en passant target on rank 6.  "8/p7/8/1p6/8/8/8/8 b - b6 0 1"
FenEnPassantBlack ==
    JoinWords(<<<<"8", "/", "p", "7", "/", "8", "/", "1", "p", "6", "/", "8", "/", "8", "/", "8", "/", "8">>,
               <<"b">>,
               <<"-">>,
               <<"b", "6">>,
               <<"0">>,
               <<"1">>>>)

\* Black to move; the black pawn a2 is one step from its farthest rank.  "8/8/8/8/8/8/p7/8 b - - 0 1"
FenPromotion ==
    JoinWords(<<<<"8", "/", "8", "/", "8", "/", "8", "/", "8", "/", "8", "/", "p", "7", "/", "8">>,
               <<"b">>,
               <<"-">>,
               <<"-">>,
               <<"0">>,
               <<"1">>>>)

\* A placement whose last rank has seven squares.  "8/8/8/8/8/8/8/7 w - - 0 1"
FenShortRank ==
    JoinWords(<<<<"8", "/", "8", "/", "8", "/", "8", "/", "8", "/", "8", "/", "8", "/", "7">>,
               <<"w">>,
               <<"-">>,
               <<"-">>,
               <<"0">>,
               <<"1">>>>)

\* The texts of the second set of runs: en passant captures, promotions, a
\* short placement, and moves onto a king, onto the origin itself and of a
\* white pawn to the far side of the board.
PlayFens ==
    {FenEnPassant, FenEnPassantWhite, FenEnPassantBlack, FenPromotion, FenShortRank}

PlayMoves ==
    {<<"e", "2", " ", "e", "4">>,
     <<"e", "7", " ", "e", "5">>,
     <<"c", "5", " ", "b", "6">>,
     <<"c", "5", " ", "c", "7">>,
     <<"e", "4", " ", "d", "3">>,
     <<"a", "7", " ", "b", "6">>,
     <<"a", "2", " ", "a", "1">>,
     <<"e", "1", " ", "e", "8">>,
     <<"e", "1", " ", "e", "1">>,
     <<"a", "2", " ", "a", "7">>,
     <<"a", "7", " ", "a", "8">>}

\* An empty board.  "8/8/8/8/8/8/8/8 w - - 0 1"
FenSceneryEmpty ==
    JoinWords(<<<<"8", "/", "8", "/", "8", "/", "8", "/", "8", "/", "8", "/", "8", "/", "8">>,
               <<"w">>,
               <<"-">>,
               <<"-">>,
               <<"0">>,
               <<"1">>>>)

\* Two pieces of each colour, on four ranks and three files.  "8/1p6/5N2/8/8/2r2P2/8/8 w - - 0 1"
FenSceneryMixed ==
    JoinWords(<<<<"8", "/", "1", "p", "6", "/", "5", "N", "2", "/", "8", "/", "8", "/", "2", "r", "2", "P", "2", "/", "8", "/", "8">>,
               <<"w">>,
               <<"-">>,
               <<"-">>,
               <<"0">>,
               <<"1">>>>)

\* King e1 beside its queen, rook h1, both white rights.  "8/8/8/8/8/8/8/3QK2R w KQ - 0 0"
FenKingHome ==
    JoinWords(<<<<"8", "/", "8", "/", "8", "/", "8", "/", "8", "/", "8", "/", "8", "/", "3", "Q", "K", "2", "R">>,
               <<"w">>,
               <<"K", "Q">>,
               <<"-">>,
               <<"0">>,
               <<"0">>>>)

\* King e1 attacked along the e file, rook h1, kingside right.  "k3r3/8/8/8/8/8/8/4K2R w K - 0 1"
FenCastleInCheck ==
    JoinWords(<<<<"k", "3", "r", "3", "/", "8", "/", "8", "/", "8", "/", "8", "/", "8", "/", "8", "/", "4", "K", "2", "R">>,
               <<"w">>,
               <<"K">>,
               <<"-">>,
               <<"0">>,
               <<"1">>>>)

\* The transit square f1 attacked along the f file.  "k4r2/8/8/8/8/8/8/4K2R w K - 0 1"
FenCastleTransit ==
    JoinWords(<<<<"k", "4", "r", "2", "/", "8", "/", "8", "/", "8", "/", "8", "/", "8", "/", "8", "/", "4", "K", "2", "R">>,
               <<"w">>,
               <<"K">>,
               <<"-">>,
               <<"0">>,
               <<"1">>>>)

\* The white pawn b4 covers its king a3 from the bishop c5.  "8/8/8/2b5/1P6/K7/8/8 w - - 0 0"
FenPinWhite ==
    JoinWords(<<<<"8", "/", "8", "/", "8", "/", "2", "b", "5", "/", "1", "P", "6", "/", "K", "7", "/", "8", "/", "8">>,
               <<"w">>,
               <<"-">>,
               <<"-">>,
               <<"0">>,
               <<"0">>>>)

\* The pieces a move generator is called on.
GenPieces ==
    {Piece(k, c) : k \in {"King", "Queen", "Rook", "Bishop", "Knight", "Pawn"},
                   c \in Colour}

\* The en passant squares handed to the generators on the scenery boards.
GenEnPassants == {NoSquare, <<2, 1>>, <<5, 4>>}

\* The Games the generators are called on: a scenery with one more piece on
\* any of its empty squares, and the positions of the scenarios as loaded.
GenSceneries == {FenSceneryEmpty, FenSceneryMixed}

GenFens == {FenKingHome, FenCastleInCheck, FenCastleTransit, FenPinWhite,
            FenMateWhite, FenPinBlack}

GenGames ==
    {set_state_from_fen(Game_new, fen, TRUE).game : fen \in GenFens}
    \cup
    UNION {LET g == set_state_from_fen(Game_new, fen, TRUE).game IN
             {[g EXCEPT !.board = Put(@, sq, p), !.en_passant_square = ep] :
                 sq \in {x \in Squares : At(g.board, x) = Empty},
                 p \in GenPieces, ep \in GenEnPassants} :
           fen \in GenSceneries}

\* The letters handed to select_promotion.
PromotionInputs == {"N", "x"}

(***************************************************************************)
(* The state machine: a Game built by Game::new, then any sequence of      *)
(* calls of its public functions.  A panic ends the run.                   *)
(***************************************************************************)
\* The variables take the fields of the Game g.
SetGame(g) ==
    /\ board' = g.board
    /\ current_turn' = g.current_turn
    /\ castlings' = g.castlings
    /\ en_passant_square' = g.en_passant_square
    /\ halfmove_clock' = g.halfmove_clock
    /\ turn' = g.turn
    /\ selected_promotion' = g.selected_promotion
    /\ game_state' = g.game_state

\* The record of a call: its name, its result ("ok", "None", "Some" or
\* "panic"), its text (the argument of set_state_from_fen or select_promotion,
\* the result of get_fen), for take_turn the two squares, the pieces that
\* stood on them before the call and whether `to` was among the valid moves,
\* and for a move generator call the square and the piece it was called on,
\* the list handed to clean_moves (candidates) and the list returned (moves).
Call(op, ret, text) ==
    [op |-> op, ret |-> ret, text |-> text, from |-> NoSquare, to |-> NoSquare,
     origin |-> Empty, target |-> Empty, valid |-> FALSE,
     candidates |-> {}, moves |-> {}]

Running == last.ret # "panic"

Init ==
    /\ board = Game_new.board
    /\ current_turn = Game_new.current_turn
    /\ castlings = Game_new.castlings
    /\ en_passant_square = Game_new.en_passant_square
    /\ halfmove_clock = Game_new.halfmove_clock
    /\ turn = Game_new.turn
    /\ selected_promotion = Game_new.selected_promotion
    /\ game_state = Game_new.game_state
    /\ last = Call("new", "ok", <<>>)
    /\ ncalls = 0
    /\ nloads = 0

\* game.set_state_from_fen(fen)
SetStateFromFen(fen, oc) ==
    /\ Running
    /\ nloads < MaxLoads
    /\ LET r == set_state_from_fen(Game, fen, oc) IN
         /\ SetGame(r.game)
         /\ last' = Call("set_state_from_fen", IF r.panic THEN "panic" ELSE "ok", fen)
    /\ nloads' = nloads + 1
    /\ ncalls' = ncalls

\* game.take_turn(mov): the text is split at the space and each half goes
\* through convert_square.  The board holds the 64 squares the call reads.
TakeTurn(mov, oc) ==
    /\ Running
    /\ ncalls < MaxCalls
    /\ Covers64(board)
    /\ LET movs == split(mov, " ")
           from == convert_square(movs[1])
           to == convert_square(movs[2])
           r == take_turn(Game, from, to, oc)
       IN
         /\ SetGame(r.game)
         /\ last' = [Call("take_turn", r.ret, mov) EXCEPT
                       !.from = from, !.to = to,
                       !.origin = At(board, from), !.target = At(board, to),
                       !.valid = to \in get_valid_moves(At(board, from), from, board,
                                                        en_passant_square, castlings)]
    /\ ncalls' = ncalls + 1
    /\ nloads' = nloads

\* game.select_promotion(piece)
SelectPromotion(c) ==
    /\ Running
    /\ LET r == select_promotion(Game, c) IN
         /\ SetGame(r.game)
         /\ last' = Call("select_promotion", IF r.panic THEN "panic" ELSE "ok", <<c>>)
    /\ UNCHANGED <<ncalls, nloads>>

\* game.get_fen(): the Game is only read.
GetFen ==
    /\ Running
    /\ Covers64(board)
    /\ last' = Call("get_fen", "ok", get_fen(Game))
    /\ UNCHANGED <<board, current_turn, castlings, en_passant_square, halfmove_clock,
                   turn, selected_promotion, game_state, ncalls, nloads>>

Next ==
    \/ \E fen \in FenInputs, oc \in BOOLEAN : SetStateFromFen(fen, oc)
    \/ \E mov \in MoveInputs, oc \in BOOLEAN : TakeTurn(mov, oc)
    \/ \E c \in PromotionInputs : SelectPromotion(c)
    \/ GetFen

Spec == Init /\ [][Next]_vars

\* The same calls on the second set of texts.
PlayNext ==
    \/ \E fen \in PlayFens, oc \in BOOLEAN : SetStateFromFen(fen, oc)
    \/ \E mov \in PlayMoves, oc \in BOOLEAN : TakeTurn(mov, oc)
    \/ \E c \in PromotionInputs : SelectPromotion(c)

PlaySpec == Init /\ [][PlayNext]_vars

(***************************************************************************)
(* The move generators called on their own: a Game as loaded from a text,  *)
(* then calls of get_valid_moves and get_threatened_squares on its pieces. *)
(***************************************************************************)
\* The squares of the board that hold a piece.
Occupied(b) == {sq \in Squares : At(b, sq) # Empty}

GenInit ==
    /\ \E g \in GenGames :
          /\ board = g.board
          /\ current_turn = g.current_turn
          /\ castlings = g.castlings
          /\ en_passant_square = g.en_passant_square
          /\ halfmove_clock = g.halfmove_clock
          /\ turn = g.turn
          /\ selected_promotion = g.selected_promotion
          /\ game_state = g.game_state
    /\ last = Call("set_state_from_fen", "ok", <<>>)
    /\ ncalls = 0
    /\ nloads = 1

\* board[pos.0][pos.1].get_valid_moves(pos, &board, en_passant_square, castlings)
GetValidMoves(pos) ==
    /\ Running
    /\ last' = [Call("get_valid_moves", "ok", <<>>) EXCEPT
                  !.from = pos, !.origin = At(board, pos),
                  !.candidates = Candidates(At(board, pos), pos, board,
                                            en_passant_square, castlings),
                  !.moves = get_valid_moves(At(board, pos), pos, board,
                                            en_passant_square, castlings)]
    /\ UNCHANGED <<board, current_turn, castlings, en_passant_square, halfmove_clock,
                   turn, selected_promotion, game_state, ncalls, nloads>>

\* board[pos.0][pos.1].get_threatened_squares(pos, &board)
GetThreatenedSquares(pos) ==
    /\ Running
    /\ last' = [Call("get_threatened_squares", "ok", <<>>) EXCEPT
                  !.from = pos, !.origin = At(board, pos),
                  !.moves = get_threatened_squares(At(board, pos), pos, board)]
    /\ UNCHANGED <<board, current_turn, castlings, en_passant_square, halfmove_clock,
                   turn, selected_promotion, game_state, ncalls, nloads>>

GenNext ==
    \/ \E pos \in Occupied(board) : GetValidMoves(pos)
    \/ \E pos \in Occupied(board) : GetThreatenedSquares(pos)

GenSpec == GenInit /\ [][GenNext]_vars

(***************************************************************************)
(* The claims.  A step of take_turn is a step with ncalls' = ncalls + 1, a *)
(* step of set_state_from_fen one with nloads' = nloads + 1; last' then    *)
(* describes that call.                                                    *)
(***************************************************************************)
\* The side to move owns the piece p.
OwnedBy(p, c) == p # Empty /\ get_colour(p) = c

\* C1: take_turn with an origin piece owned by the side to move and a
\* destination outside that piece's valid moves returns None and leaves every
\* field of the Game as it was before the call.
C1_IllegalDestinationRejected ==
    [][(/\ ncalls' = ncalls + 1
        /\ OwnedBy(last'.origin, current_turn)
        /\ ~last'.valid)
       => (last'.ret = "None" /\ Game' = Game)]_vars

\* C2: take_turn whose origin square is Empty or holds a piece of the side
\* that is not to move returns None and leaves every field of the Game, the
\* halfmove clock included, as it was before the call.
C2_ForeignOriginRejected ==
    [][(/\ ncalls' = ncalls + 1
        /\ ~OwnedBy(last'.origin, current_turn))
       => (last'.ret = "None" /\ Game' = Game)]_vars

\* A king of colour c stands on a square threatened by a piece of the other
\* colour on board b.
KingThreatened(b, c) ==
    \E sq \in Squares : At(b, sq) = King(c) /\ sq \in threatened_squares(b, c)

\* C3: after take_turn has applied a destination returned by get_valid_moves,
\* the king of the side that just moved is on no square threatened by a piece
\* of the opponent on the resulting board.
C3_MoverKingSafe ==
    (last.op = "take_turn" /\ last.ret = "Some" /\ last.valid)
    => ~KingThreatened(board, get_colour(last.origin))

\* The game state of the side c to move on board b as the rules define it: a
\* reply is a candidate move of a piece of c, replayed as origin cleared and
\* destination taken, after which the king of c is not threatened.
C4_HasReply(b, c, ep, cast) ==
    \E from \in Squares :
        /\ OwnedBy(At(b, from), c)
        /\ \E to \in Candidates(At(b, from), from, b, ep, cast) :
              ~KingThreatened(Put(Put(b, to, At(b, from)), from, Empty), c)

C4_StateOf(b, c, ep, cast) ==
    IF ~KingThreatened(b, c) THEN InProgress
    ELSE IF C4_HasReply(b, c, ep, cast) THEN Check
    ELSE Checkmate

\* C4: the GameState stored and returned by a successful take_turn is, for the
\* new side to move, Checkmate exactly when its king is attacked and no move
\* of that side leaves its king unattacked, Check exactly when its king is
\* attacked and such a move exists, InProgress exactly when its king is not
\* attacked.
C4_StoredStateIsExact ==
    (last.op = "take_turn" /\ last.ret = "Some")
    => game_state = C4_StateOf(board, current_turn, en_passant_square, castlings)

\* The six fields a FEN text carries.
FenFields(g) ==
    <<g.board, g.current_turn, g.castlings, g.en_passant_square,
      g.halfmove_clock, g.turn>>

\* C5: for every Game reached from Game::new by take_turn calls alone,
\* set_state_from_fen(get_fen(g)) succeeds and yields the board, side to move,
\* castling rights, en passant target, halfmove clock and fullmove number of g.
C5_FenRoundTrip ==
    (nloads = 0 /\ Running)
    => LET r == set_state_from_fen(new_empty, get_fen(Game), TRUE)
       IN ~r.panic /\ FenFields(r.game) = FenFields(Game)

\* C5 witness: a Game reached by take_turn calls alone with no castling right
\* left and an en passant target set.
C5_Witness ==
    /\ nloads = 0 /\ Running /\ last.op = "take_turn"
    /\ castlings = <<FALSE, FALSE, FALSE, FALSE>>
    /\ en_passant_square # NoSquare

\* The standard opening position, rank 8 first.
C6_BackRank(c) ==
    <<Rook(c), Knight(c), Bishop(c), Queen(c), King(c), Bishop(c), Knight(c), Rook(c)>>

C6_StandardBoard ==
    <<C6_BackRank(Black), [i \in 1..8 |-> Pawn(Black)],
      Empties(8), Empties(8), Empties(8), Empties(8),
      [i \in 1..8 |-> Pawn(White)], C6_BackRank(White)>>

\* C6: Game::new() yields the standard opening position, White to move, all
\* four castling rights, no en passant target, halfmove clock 0, fullmove
\* number 1, promotion to a white queen, state InProgress; and get_fen on it
\* returns "rnbqkbnr/pppppppp/8/8/8/8/PPPPPPPP/RNBQKBNR w KQkq - 0 1".
C6_NewIsStandardOpening ==
    last.op = "new"
    => /\ board = C6_StandardBoard
       /\ current_turn = White
       /\ castlings = <<TRUE, TRUE, TRUE, TRUE>>
       /\ en_passant_square = <<8, 8>>
       /\ halfmove_clock = 0
       /\ turn = 1
       /\ selected_promotion = Queen(White)
       /\ game_state = InProgress
       /\ get_fen(Game) = StartFen

\* C6 witness: the Game as Game::new() returned it, before any other call.
C6_Witness == last.op = "new" /\ ncalls = 0 /\ nloads = 0 /\ Len(board) = 8

\* The castling field a FEN text must carry for the rights c.
C7_CastlingField(c) ==
    IF c = <<FALSE, FALSE, FALSE, FALSE>> THEN <<"-">>
    ELSE SelectSeq(<<"K", "Q", "k", "q">>,
                   LAMBDA x : c[IndexOf(<<"K", "Q", "k", "q">>, x)])

\* C7: the text of get_fen has six non-empty fields separated by single
\* spaces, and its castling field holds the granted letters in the order
\* K, Q, k, q, or '-' when no right is granted.
C7_CastlingFieldNeverEmpty ==
    (Running /\ Covers64(board))
    => LET f == split(get_fen(Game), " ")
       IN /\ Len(f) = 6
          /\ \A i \in DOMAIN f : Len(f[i]) > 0
          /\ f[3] = C7_CastlingField(castlings)

\* C8: when set_state_from_fen fails, no field of the Game has been modified
\* at the point of failure.
C8_FailedLoadLeavesGame ==
    [][(nloads' = nloads + 1 /\ last'.ret = "panic") => Game' = Game]_vars

\* C9: a successful set_state_from_fen replaces every field, so the Game it
\* leaves depends on the text alone: it equals the Game a fresh Game::new()
\* becomes when given the same text, selected_promotion and game_state
\* included.
C9_LoadReplacesAllFields ==
    (last.op = "set_state_from_fen" /\ last.ret = "ok")
    => Game = set_state_from_fen(Game_new, last.text, TRUE).game

\* The board after castling: the king on `to`, the rook on the square the king
\* passed over, the king's and the rook's origin squares empty.
C10_Castled(b, c, from, to) ==
    LET rook_from == IF to[2] = 6 THEN <<to[1], 7>> ELSE <<to[1], 0>>
        rook_to == IF to[2] = 6 THEN <<to[1], 5>> ELSE <<to[1], 3>>
    IN Put(Put(Put(Put(b, from, Empty), rook_from, Empty), to, King(c)), rook_to, Rook(c))

\* The castling right of the destination `to` is granted in cast.
C10_RightGranted(cast, to) ==
    \/ to = <<7, 6>> /\ cast[1]
    \/ to = <<7, 2>> /\ cast[2]
    \/ to = <<0, 6>> /\ cast[3]
    \/ to = <<0, 2>> /\ cast[4]

\* A take_turn call moves a king from its home square (e1, e8) to a castling
\* destination of its row while the right of that destination is granted.
C10_KingCastles ==
    /\ ncalls' = ncalls + 1
    /\ last'.ret = "Some"
    /\ last'.origin.kind = "King"
    /\ last'.from = (IF get_colour(last'.origin) = White THEN <<7, 4>> ELSE <<0, 4>>)
    /\ last'.to[1] = last'.from[1]
    /\ C10_RightGranted(castlings, last'.to)

\* C10: when a king moves from its home square to a castling destination with
\* the corresponding right granted, take_turn leaves the king on the
\* destination, the paired rook on its post-castling square, the two origin
\* squares empty, every other square unchanged and both castling rights of
\* that colour not granted.
C10_CastlingMovesKingAndRook ==
    [][C10_KingCastles
       => /\ board' = C10_Castled(board, get_colour(last'.origin), last'.from, last'.to)
          /\ LET k == IF get_colour(last'.origin) = White THEN 1 ELSE 3
             IN ~castlings'[k] /\ ~castlings'[k + 1]]_vars

\* The pawn at `from` takes en passant on `to`: the pawn stands on `to`, its
\* origin is empty, and so is the square one rank behind `to` as the capturing
\* pawn sees it (the row it came from); every other square is as it was.
C11_Captured(b, from, to) ==
    Put(Put(Put(b, from, Empty), <<from[1], to[2]>>, Empty), to, At(b, from))

\* C11: when a pawn of the side to move lands by a valid move on the current
\* en passant target, take_turn moves the pawn to the target, empties the
\* square one rank behind the target from the capturing pawn's side, and
\* changes no other square.
C11_EnPassantCapture ==
    [][(/\ ncalls' = ncalls + 1
        /\ last'.origin = Pawn(current_turn)
        /\ last'.valid
        /\ last'.to = en_passant_square)
       => (/\ last'.ret = "Some"
           /\ board' = C11_Captured(board, last'.from, last'.to))]_vars

\* C12: when take_turn relocates a pawn by a valid move onto the farthest rank
\* of its colour (row 0 for White, row 7 for Black), the destination holds a
\* Queen, Rook, Bishop or Knight of the selected kind and of the colour of the
\* side that moved.
C12_PromotionHasMoverColour ==
    [][(/\ ncalls' = ncalls + 1
        /\ last'.ret = "Some"
        /\ last'.valid
        /\ last'.origin = Pawn(current_turn)
        /\ last'.to[1] = (IF current_turn = White THEN 0 ELSE 7))
       => (/\ selected_promotion.kind \in {"Queen", "Rook", "Bishop", "Knight"}
           /\ At(board', last'.to) = Piece(selected_promotion.kind, current_turn))]_vars

\* C13: every take_turn that returns Some toggles the side to move, and the
\* fullmove number grows by exactly 1 when the side that moved was Black and
\* keeps its value when it was White.
C13_TurnToggles ==
    [][(ncalls' = ncalls + 1 /\ last'.ret = "Some")
       => (/\ current_turn = White => (current_turn' = Black /\ turn' = turn)
           /\ current_turn = Black => (current_turn' = White /\ turn' = turn + 1))]_vars

\* C13 witness: Black has just moved after White, and the fullmove number has
\* grown from 1 to 2.
C13_Witness ==
    /\ nloads = 0 /\ last.op = "take_turn" /\ last.ret = "Some"
    /\ get_colour(last.origin) = Black
    /\ current_turn = White /\ turn = 2

\* The en passant target a move of the piece `origin` from `from` to `to`
\* leaves: the square passed over by a pawn advancing two ranks from its
\* starting rank, and the sentinel in every other case.
C20_Target(origin, from, to) ==
    IF origin = Pawn(White) /\ from[1] = 6 /\ to = <<4, from[2]>> THEN <<5, from[2]>>
    ELSE IF origin = Pawn(Black) /\ from[1] = 1 /\ to = <<3, from[2]>> THEN <<2, from[2]>>
    ELSE NoSquare

\* C20: after every take_turn that returns Some, the en passant target is the
\* square passed over if the moved piece was a pawn that advanced two ranks
\* from its starting rank, and the sentinel (8,8) in every other case.
C20_EnPassantRecomputed ==
    [][(ncalls' = ncalls + 1 /\ last'.ret = "Some")
       => en_passant_square' = C20_Target(last'.origin, last'.from, last'.to)]_vars

\* The destinations of a sliding piece `self` at `pos` along the direction d:
\* the squares of the board reached over empty squares only, that are empty
\* or hold a piece of the other colour.
C14_Ray(b, self, pos, d) ==
    {sq \in Squares :
        \E n \in 1..7 :
            /\ sq = <<pos[1] + n * d[1], pos[2] + n * d[2]>>
            /\ \A m \in 1..(n - 1) :
                  At(b, <<pos[1] + m * d[1], pos[2] + m * d[2]>>) = Empty
            /\ (At(b, sq) = Empty \/ get_colour(At(b, sq)) # get_colour(self))}

C14_Directions(kind) ==
    (IF kind \in {"Rook", "Queen"}
     THEN {<<0, 1>>, <<1, 0>>, <<0, -1>>, <<-1, 0>>} ELSE {})
    \cup
    (IF kind \in {"Bishop", "Queen"}
     THEN {<<1, 1>>, <<1, -1>>, <<-1, 1>>, <<-1, -1>>} ELSE {})

\* C14: for a rook, bishop or queen the generated destinations are, along each
\* of its rays, exactly the empty squares before the first occupied square,
\* plus that square if and only if it holds an enemy piece; nothing beyond it
\* and nothing off the board.
C14_SlidersFollowRays ==
    (last.op = "get_valid_moves" /\ last.origin.kind \in {"Rook", "Bishop", "Queen"})
    => last.candidates =
         UNION {C14_Ray(board, last.origin, last.from, d) :
                  d \in C14_Directions(last.origin.kind)}

\* C14 witness: a bishop alone on b8 yields a7, c7, d6, e5, f4, g3, h2.
C14_Witness ==
    /\ last.op = "get_valid_moves"
    /\ last.origin = Bishop(White) /\ last.from = <<0, 1>>
    /\ Occupied(board) = {<<0, 1>>}
    /\ last.candidates =
         {<<1, 0>>, <<1, 2>>, <<2, 3>>, <<3, 4>>, <<4, 5>>, <<5, 6>>, <<6, 7>>}

\* The board holds exactly one king of colour c.
C15_OneKing(b, c) == Cardinality({sq \in Squares : At(b, sq) = King(c)}) = 1

\* C15: on a board with one king of each colour, for a piece of either
\* colour, clean_moves discards a candidate if and only if, on the board with
\* the origin cleared and the destination holding the moving piece, the king
\* of the mover's colour is attacked by a piece of the other colour.
C15_FilterTestsMoverKing ==
    (last.op = "get_valid_moves" /\ \A c \in Colour : C15_OneKing(board, c))
    => last.moves =
         {m \in last.candidates :
             ~KingThreatened(Put(Put(board, m, last.origin), last.from, Empty),
                             get_colour(last.origin))}

\* The destination <<row, col>> of a king of colour c on its home square of
\* `row` is a castling the claim allows: the right is granted, the squares
\* `between` the king and the rook are empty, and the king's origin, transit
\* and destination squares are not threatened by the opponent.
C16_Allowed(b, c, right, row, col, between) ==
    /\ right
    /\ \A y \in between : At(b, <<row, y>>) = Empty
    /\ \A y \in {4, (4 + col) \div 2, col} :
          <<row, y>> \notin threatened_squares(b, c)

\* C16: a castling destination is among the destinations of a king on its home
\* square only if the right is granted, every square between king and rook is
\* empty and none of the king's origin, transit and destination squares is
\* threatened by the opponent; and the king e1 beside the queen d1, with the
\* rook h1 and the rights KQ, has exactly f1, g1, d2, e2, f2.
C16_CastlingOnlyWhenSafe ==
    /\ (last.op = "get_valid_moves" /\ last.origin.kind = "King"
        /\ last.from = <<(IF last.origin = King(White) THEN 7 ELSE 0), 4>>)
       => LET c == get_colour(last.origin)
              row == last.from[1]
              k == IF c = White THEN 1 ELSE 3
          IN /\ <<row, 6>> \in last.moves
                => C16_Allowed(board, c, castlings[k], row, 6, {5, 6})
             /\ <<row, 2>> \in last.moves
                => C16_Allowed(board, c, castlings[k + 1], row, 2, {1, 2, 3})
    /\ (last.op = "get_valid_moves" /\ last.from = <<7, 4>>
        /\ board = set_state_from_fen(Game_new, FenKingHome, TRUE).game.board
        /\ castlings = <<TRUE, TRUE, FALSE, FALSE>>)
       => last.moves = {<<7, 5>>, <<7, 6>>, <<6, 3>>, <<6, 4>>, <<6, 5>>}

\* The moves of the pawn `self` at `pos` as the rules give them: forward is
\* toward row 0 for White and toward row 7 for Black.
C17_PawnMoves(b, self, pos, ep) ==
    LET d == IF get_colour(self) = White THEN -1 ELSE 1
        start == IF get_colour(self) = White THEN 6 ELSE 1
        ahead == <<pos[1] + d, pos[2]>>
        two == <<pos[1] + 2 * d, pos[2]>>
    IN (IF At(b, ahead) = Empty THEN {ahead} ELSE {})
       \cup
       (IF pos[1] = start /\ At(b, ahead) = Empty /\ At(b, two) = Empty
        THEN {two} ELSE {})
       \cup
       {sq \in {<<pos[1] + d, pos[2] - 1>>, <<pos[1] + d, pos[2] + 1>>} \cap Squares :
           \/ (At(b, sq) # Empty /\ get_colour(At(b, sq)) # get_colour(self))
           \/ sq = ep}

\* C17: for a pawn of either colour with the square ahead on the board,
\* get_pawn_moves returns exactly the square ahead if it is empty (the
\* farthest rank included), the square two ranks ahead if the pawn is on its
\* starting rank and both are empty, and each diagonal-forward square that
\* holds an enemy piece or is the en passant target.
C17_PawnMovesExact ==
    (/\ last.op = "get_valid_moves"
     /\ last.origin.kind = "Pawn"
     /\ last.from[1] # (IF last.origin = Pawn(White) THEN 0 ELSE 7))
    => last.candidates = C17_PawnMoves(board, last.origin, last.from, en_passant_square)

\* C18: get_threatened_squares of a pawn returns exactly the squares of the
\* board diagonally forward for the pawn's colour (toward row 0 for White,
\* toward row 7 for Black), occupied or not.
C18_PawnThreatensForward ==
    (last.op = "get_threatened_squares" /\ last.origin.kind = "Pawn")
    => LET d == IF last.origin = Pawn(White) THEN -1 ELSE 1
       IN last.moves =
            {<<last.from[1] + d, last.from[2] - 1>>,
             <<last.from[1] + d, last.from[2] + 1>>} \cap Squares

\* C19: get_knight_moves returns exactly the squares of the board at an offset
\* (+-1, +-2) or (+-2, +-1) that are empty or hold an enemy piece, and its
\* guards admit no offset that leads off the board.
C19_KnightMovesExact ==
    (last.op = "get_valid_moves" /\ last.origin.kind = "Knight")
    => /\ last.candidates =
            {sq \in Squares :
                /\ (sq[1] - last.from[1]) * (sq[1] - last.from[1])
                     + (sq[2] - last.from[2]) * (sq[2] - last.from[2]) = 5
                /\ (At(board, sq) = Empty
                    \/ get_colour(At(board, sq)) # get_colour(last.origin))}
       /\ \A e \in KnightOffsets :
             (KnightGuard(last.from[1], e[1]) /\ KnightGuard(last.from[2], e[2]))
             => OnBoard(<<last.from[1] + e[1], last.from[2] + e[2]>>)

\* C19 witness: a white knight on d5 with the black rook c3, which it takes,
\* and the white knight f6, which it does not, among its eight offsets.
C19_Witness ==
    /\ last.op = "get_valid_moves"
    /\ last.origin = Knight(White) /\ last.from = <<3, 3>>
    /\ At(board, <<5, 2>>) = Rook(Black) /\ At(board, <<2, 5>>) = Knight(White)
    /\ last.candidates =
         {<<1, 2>>, <<1, 4>>, <<2, 1>>, <<4, 1>>, <<4, 5>>, <<5, 2>>, <<5, 4>>}

(***************************************************************************)
(* Claims C21 to C30.                                                      *)
(***************************************************************************)

\* C21: after every take_turn that returns Some, the halfmove clock is 0 if
\* the moved piece is a pawn or the destination square was occupied before
\* the call, and otherwise exactly one more than before the call.
C21_HalfmoveClock ==
    [][(ncalls' = ncalls + 1 /\ last'.ret = "Some")
       => halfmove_clock' =
            IF last'.origin.kind = "Pawn" \/ last'.target # Empty
            THEN 0 ELSE halfmove_clock + 1]_vars

\* The rights (white king side, white queen side, black king side, black
\* queen side) a move of `origin` from `from` to `to` must leave not granted.
C22_Cleared(origin, from, to) ==
    {i \in 1..4 :
        \/ origin = King(White) /\ i \in {1, 2}
        \/ origin = King(Black) /\ i \in {3, 4}
        \/ i = 1 /\ <<7, 7>> \in {from, to}
        \/ i = 2 /\ <<7, 0>> \in {from, to}
        \/ i = 3 /\ <<0, 7>> \in {from, to}
        \/ i = 4 /\ <<0, 0>> \in {from, to}}

\* C22: after every take_turn that returns Some, both rights of the moved
\* king's colour are not granted, the right tied to a rook home square (a1,
\* h1, a8, h8) that is the origin or the destination is not granted, and
\* every other right keeps its value.
C22_CastlingRightsAfterMove ==
    [][(ncalls' = ncalls + 1 /\ last'.ret = "Some")
       => \A i \in 1..4 :
            castlings'[i] =
              IF i \in C22_Cleared(last'.origin, last'.from, last'.to)
              THEN FALSE ELSE castlings[i]]_vars

\* C23: the kind of the selected promotion piece changes only in a
\* select_promotion step; every take_turn, a promoting one included, leaves
\* it, and after every take_turn that returns Some its colour is that of the
\* new side to move.
C23_PromotionKindKept ==
    [][/\ (selected_promotion'.kind # selected_promotion.kind
             => last'.op = "select_promotion")
       /\ (ncalls' = ncalls + 1
             => selected_promotion'.kind = selected_promotion.kind)
       /\ (ncalls' = ncalls + 1 /\ last'.ret = "Some"
             => selected_promotion'.colour = current_turn')]_vars

\* C23 witness: a black pawn promoted to the selected knight on a1, after
\* which the selection is the white knight and White is to move.
C23_Witness ==
    /\ last.op = "take_turn" /\ last.ret = "Some"
    /\ last.origin = Pawn(Black) /\ last.to = <<7, 0>>
    /\ At(board, <<7, 0>>) = Knight(Black)
    /\ selected_promotion = Knight(White)
    /\ current_turn = White

\* C24: in every state reached by calls that returned, the board holds
\* exactly eight ranks of exactly eight squares each; a placement text that
\* does not describe eight ranks of eight squares is never accepted.
C24_BoardIsEightByEight ==
    Running => /\ Len(board) = 8
               /\ \A r \in 1..Len(board) : Len(board[r]) = 8

\* The squares of the board b that hold the king of colour c.
C25_Kings(b, c) == {sq \in Squares : At(b, sq) = King(c)}

\* C25: in every state reached from the standard opening position by
\* take_turn calls alone, with whatever squares, the board holds exactly one
\* white king and exactly one black king.
C25_OneKingEach ==
    nloads = 0 => \A c \in Colour : Cardinality(C25_Kings(board, c)) = 1

\* The home square of the king and of the rook of each castling right, in
\* the order white king side, white queen side, black king side, black
\* queen side.
C26_Home ==
    <<[colour |-> White, king |-> <<7, 4>>, rook |-> <<7, 7>>],
      [colour |-> White, king |-> <<7, 4>>, rook |-> <<7, 0>>],
      [colour |-> Black, king |-> <<0, 4>>, rook |-> <<0, 7>>],
      [colour |-> Black, king |-> <<0, 4>>, rook |-> <<0, 0>>]>>

\* C26: in every state reached from the standard opening position by
\* take_turn calls alone, a granted castling right has the king of its
\* colour on its home square (e1 or e8) and a rook of its colour on the
\* corner of its side.
C26_RightImpliesHomeSquares ==
    nloads = 0 =>
        \A i \in 1..4 :
            castlings[i] =>
                /\ At(board, C26_Home[i].king) = King(C26_Home[i].colour)
                /\ At(board, C26_Home[i].rook) = Rook(C26_Home[i].colour)

\* The number of pieces of colour c on the board b.
C29_Count(b, c) == Cardinality({sq \in Occupied(b) : get_colour(At(b, sq)) = c})

\* C29: in the states reached from the standard opening position by
\* take_turn calls alone, a take_turn call leaves the number of pieces of the
\* side that was to move and takes at most one piece from the other side.
C29_PieceCounts ==
    [][(nloads = 0 /\ ncalls' = ncalls + 1)
       => /\ C29_Count(board', current_turn) = C29_Count(board, current_turn)
          /\ C29_Count(board', Other(current_turn))
               \in {C29_Count(board, Other(current_turn)),
                    C29_Count(board, Other(current_turn)) - 1}]_vars

\* C27: Checkmate is absorbing: when the stored state is Checkmate, every
\* take_turn returns None and leaves the board, the side to move and the
\* stored state.
C27_CheckmateAbsorbing ==
    [][(game_state = Checkmate /\ ncalls' = ncalls + 1)
       => /\ last'.ret = "None"
          /\ board' = board
          /\ current_turn' = current_turn
          /\ game_state' = Checkmate]_vars

\* C28: no take_turn call, whatever it returns, changes a castling right
\* from not granted to granted.
C28_RightsNeverRegranted ==
    [][ncalls' = ncalls + 1 => \A i \in 1..4 : castlings'[i] => castlings[i]]_vars

\* C28 witness: a take_turn call from or onto a corner has returned Some, the
\* right of that corner is not granted and another right still is.
C28_Witness ==
    /\ last.op = "take_turn" /\ last.ret = "Some"
    /\ \E i \in 1..4 : /\ C26_Home[i].rook \in {last.from, last.to}
                       /\ ~castlings[i]
    /\ \E i \in 1..4 : castlings[i]

\* C30: in the states reached from the standard opening position by
\* take_turn calls alone, no take_turn call on two squares of the board
\* panics, and none evaluates `from.0 - 2` for a white pawn on row 0 or 1
\* (the subtraction is evaluated once the origin holds a piece of the side
\* to move, for a white pawn).
C30_NoUnderflowNoPanic ==
    [][(nloads = 0 /\ ncalls' = ncalls + 1
          /\ last'.from \in Squares /\ last'.to \in Squares)
       => /\ last'.ret # "panic"
          /\ ~(current_turn = White /\ last'.origin = Pawn(White)
                 /\ last'.from[1] < 2)]_vars

=============================================================================
